---- MODULE Spec2Model ----
(***************************************************************************)
(* Model of PackageCommand.handle (src/apps/cli/commands/package.py): the  *)
(* `package` command that runs a translator, reconciles the dream-lock it  *)
(* produced (empty entries, cyclic dependencies, combined hash) and writes *)
(* dream-lock.json back.                                                   *)
(*                                                                         *)
(* Modelled runs are non-interactive, without --default-nix, with a source *)
(* that exists and a translator that is found.  A dependency list is kept  *)
(* as the set of its elements (line 305 adds the elements to a set).       *)
(***************************************************************************)
EXTENDS Integers, Sequences, FiniteSets, TLC

\* ---------------------------------------------------------------- bounds
\* most edges a raw dependency map declares (resolver runs)
MaxEdges == 4
\* most empty entries (a version with an empty list, a name with no version)
MaxEmpty == 1
\* most edges a raw dependency map declares (whole-command runs)
MaxPipelineEdges == 1
\* most tokens of the oracle's diagnostics
MaxStderr == 2

\* package names and versions, ordered as Python orders the strings
Names == {1, 2}
Versions == {1, 2}
NodeKeys == Names \X Versions
AllEdges == NodeKeys \X NodeKeys

Dirs == {"cwd", "out"}

\* ------------------------------------------------------- small utilities
Last(s) == s[Len(s)]
Front(s) == SubSeq(s, 1, Len(s) - 1)
Range(s) == {s[i] : i \in 1..Len(s)}

RECURSIVE KSubsets(_, _)
\* the subsets of S with at most k elements
KSubsets(S, k) ==
  IF k = 0 THEN {{}}
  ELSE LET P == KSubsets(S, k - 1) IN P \cup {p \cup {x} : p \in P, x \in S}

RECURSIVE SortedInts(_)
SortedInts(S) ==
  IF S = {} THEN <<>>
  ELSE LET m == CHOOSE x \in S : \A y \in S : x <= y
       IN <<m>> \o SortedInts(S \ {m})

Reverse(s) == [i \in 1..Len(s) |-> s[Len(s) + 1 - i]]

\* Python's order on tuples: lexicographic
KeyLess(a, b) == a[1] < b[1] \/ (a[1] = b[1] /\ a[2] < b[2])
EdgeLess(e, f) == KeyLess(e[1], f[1]) \/ (e[1] = f[1] /\ KeyLess(e[2], f[2]))

RECURSIVE sorted(_)
\* sorted(list(edges)), line 306
sorted(E) ==
  IF E = {} THEN <<>>
  ELSE LET m == CHOOSE e \in E : \A f \in E : f = e \/ EdgeLess(e, f)
       IN <<m>> \o sorted(E \ {m})

\* ------------------------------------------------------ networkx DiGraph
\* nodes: the nodes of the graph; adj[u]: u's successors in insertion order
EmptyGraph == [nodes |-> {}, adj |-> [k \in NodeKeys |-> <<>>]]

add_edge(G, e) ==
  [nodes |-> G.nodes \cup {e[1], e[2]},
   adj |-> IF e[2] \in Range(G.adj[e[1]]) THEN G.adj
           ELSE [G.adj EXCEPT ![e[1]] = Append(@, e[2])]]

RECURSIVE add_edges_from(_, _)
add_edges_from(G, es) ==
  IF es = <<>> THEN G ELSE add_edges_from(add_edge(G, es[1]), Tail(es))

\* nx.DiGraph(edge list), line 306
DiGraph(es) == add_edges_from(EmptyGraph, es)

\* G.remove_edge(node_from, node_to), line 318: the nodes stay
remove_edge(G, e) ==
  [G EXCEPT !.adj[e[1]] = SelectSeq(@, LAMBDA x : x # e[2])]

GraphEdges(G) == {e \in AllEdges : e[2] \in Range(G.adj[e[1]])}

\* ------------------------------------------------- nx.find_cycle(G, key)
NoNode == <<>>

RECURSIVE PopToTail(_, _, _)
\* find_cycle, on an edge that results from backtracking: pop the active
\* path until its last edge's head is the new edge's tail
PopToTail(edges, active, tail) ==
  IF edges = <<>> THEN [edges |-> <<>>, active |-> {tail}]
  ELSE LET rest == Front(edges)
           act == active \ {Last(edges)[2]}
       IN IF rest # <<>> /\ Last(rest)[2] = tail
          THEN [edges |-> rest, active |-> act]
          ELSE PopToTail(rest, act, tail)

\* a faulty test: any node seen before closes a "cycle"
SeenBefore(head, active, seen) == head \in seen

\* find_cycle's test for a loop: the edge's head is on the active path
OnActivePath(head, active, seen) == head \in active

\* find_cycle's last step: drop the edges that lead into the cycle (the loop
\* stops at the first edge whose tail is final_node, at the last edge if
\* there is none)
TrimCycle(cycle, final_node) ==
  LET tails == {j \in 1..Len(cycle) : cycle[j][1] = final_node}
      i == IF tails = {} THEN Len(cycle)
           ELSE CHOOSE j \in tails : \A h \in tails : j <= h
  IN SubSeq(cycle, i, Len(cycle))

RECURSIVE EdgeDfs(_, _)
\* edge_dfs from one start node, consumed by find_cycle's loop.  s.stack,
\* s.pos (each node's edge iterator) and s.visited are edge_dfs's state;
\* s.edges, s.active, s.seen and s.prev are find_cycle's.  The result is
\* the cycle, or <<>> for NetworkXNoCycle.
EdgeDfs(G, s) ==
  IF s.stack = <<>> THEN <<>>
  ELSE
    LET cur == Last(s.stack)
        i == s.pos[cur]
    IN IF i > Len(G.adj[cur])
       THEN EdgeDfs(G, [s EXCEPT !.stack = Front(@)])
       ELSE
         LET edge == <<cur, G.adj[cur][i]>>
             s1 == [s EXCEPT !.pos[cur] = i + 1]
         IN IF edge \in s.visited
            THEN EdgeDfs(G, s1)
            ELSE
              LET p == IF s.prev # NoNode /\ edge[1] # s.prev
                       THEN PopToTail(s.edges, s.active, edge[1])
                       ELSE [edges |-> s.edges, active |-> s.active]
                  path == Append(p.edges, edge)
              IN IF OnActivePath(edge[2], p.active, s.seen)
                 THEN TrimCycle(path, edge[2])
                 ELSE EdgeDfs(G, [s1 EXCEPT
                        !.visited = @ \cup {edge},
                        !.stack = Append(@, edge[2]),
                        !.edges = path,
                        !.active = p.active \cup {edge[2]},
                        !.seen = @ \cup {edge[2]},
                        !.prev = edge[2]])

\* nx.find_cycle(G, key), line 314.  A key that is no node of G is taken as
\* a bunch of nodes (the name, the version), none of them in G: no cycle.
find_cycle(G, source) ==
  IF source \notin G.nodes THEN <<>>
  ELSE EdgeDfs(G, [stack |-> <<source>>,
                   pos |-> [k \in NodeKeys |-> 1],
                   visited |-> {},
                   edges |-> <<>>,
                   active |-> {source},
                   seen |-> {source},
                   prev |-> NoNode])

\* a faulty choice: the first edge of the cycle
FirstEdge(cycle) == cycle[1]

\* cycle[-1], line 317
EdgeToRemove(cycle) == cycle[Len(cycle)]

\* ------------------------------------------------------- the lock document
\* lock['_generic']['dependencies']: names is the key order of the outer
\* map, versions[n] the key order of n's map, deps[<<n, v>>] the list.
EmptyLock ==
  [generic_dependencies |-> FALSE,
   names |-> <<>>,
   versions |-> [n \in Names |-> <<>>],
   deps |-> [k \in NodeKeys |-> {}],
   hashes |-> TRUE,
   hasCombinedHash |-> FALSE,
   sourcesCombinedHash |-> <<>>,
   hasCyclic |-> FALSE,
   cyclicDependencies |-> [k \in NodeKeys |-> <<>>]]

Ordered(S, rev) == IF rev THEN Reverse(SortedInts(S)) ELSE SortedInts(S)

\* A raw lock as a translator writes it: the edges E, the empty items Z
\* (<<n, v>>: a version with an empty list; <<n>>: a name with no version),
\* its names in descending order if rev[1], in ascending order otherwise, and
\* so the versions of each name by rev[2].
RawLock(E, Z, rev) ==
  LET keys == {e[1] : e \in E} \cup (Z \cap NodeKeys)
      present == {k[1] : k \in keys} \cup {z[1] : z \in Z}
  IN [EmptyLock EXCEPT
        !.generic_dependencies = TRUE,
        !.names = Ordered(present, rev[1]),
        !.versions = [n \in Names |->
                        Ordered({k[2] : k \in {h \in keys : h[1] = n}}, rev[2])],
        !.deps = [k \in NodeKeys |-> {e[2] : e \in {f \in E : f[1] = k}}]]

EmptyItems(E) ==
  {k \in NodeKeys : \A e \in E : e[1] # k}
    \cup {<<n>> : n \in {m \in Names : \A e \in E : e[1][1] # m}}

\* no empty name together with one of its versions
Coherent(Z) == \A z \in Z : Len(z) = 1 => \A k \in Z \cap NodeKeys : k[1] # z[1]

\* the empty items a raw lock with the edges E may list, at most maxEmpty
EmptyChoices(E, maxEmpty) ==
  {Y \in KSubsets(EmptyItems(E), maxEmpty) : Coherent(Y)}

\* the (name, version) keys in the order of the loops of lines 309-310
RECURSIVE KeysOf(_, _)
KeysOf(names, versions) ==
  IF names = <<>> THEN <<>>
  ELSE [i \in 1..Len(versions[names[1]]) |-> <<names[1], versions[names[1]][i]>>]
         \o KeysOf(Tail(names), versions)

Keys(l) == KeysOf(l.names, l.versions)

\* the edges the lock's dependencies declare, lines 301-305
EdgeSet(l) == UNION {{<<k, t>> : t \in l.deps[k]} : k \in Range(Keys(l))}

\* lines 296-298: the names whose value is falsy (a map with no version)
RemoveEmptyEntries(l) ==
  [l EXCEPT !.names = SelectSeq(@, LAMBDA n : l.versions[n] # <<>>)]

RECURSIVE CyclicTable(_, _)
\* lines 325-334: each removed edge appended under its origin node
CyclicTable(table, removed) ==
  IF removed = <<>> THEN table
  ELSE CyclicTable([table EXCEPT ![removed[1][1]] = Append(@, removed[1][2])],
                   Tail(removed))

\* strip_hashes_from_lock(lock), line 343
strip_hashes_from_lock(l) == [l EXCEPT !.hashes = FALSE]

\* ------------------------------------------------------ extra arguments
ArgNames == {"noDev", "bogus"}
ArgValues == {"YES", "no", "maybe", ""}
\* translator['extraArgs']: one flag, with a default
ExtraArgs == [noDev |-> [type |-> "flag", hasDefault |-> TRUE]]
ArgInputs == UNION {[S -> ArgValues] : S \in SUBSET ArgNames}

\* str.lower on the values modelled
lower(v) == IF v = "YES" THEN "yes" ELSE v

\* lines 180-188: a recognised spelling becomes a bool, anything else is
\* reported and left as it is
FlagValue(v) ==
  IF lower(v) \in {"yes", "y", "true"} THEN "True"
  ELSE IF lower(v) \in {"no", "n", "false"} THEN "False"
  ELSE v

\* bool(v), line 191: the empty string is False, any other string True
bool(v) ==
  IF v \in {"True", "False"} THEN v ELSE IF v = "" THEN "False" ELSE "True"

\* lines 178-192
TransformFlags(given) ==
  [k \in DOMAIN given |->
     IF ExtraArgs[k].type = "flag" THEN bool(FlagValue(given[k])) ELSE given[k]]

\* lines 195-200, non-interactive: a flag with a default becomes True
WithDefaults(given) ==
  [k \in DOMAIN given \cup {n \in DOMAIN ExtraArgs : ExtraArgs[n].hasDefault} |->
     IF k \in DOMAIN given THEN given[k] ELSE "True"]

\* ------------------------------------------------- the oracle's stderr
Tokens == {"FOD_PATH=", "=", "x", "NL"}
Stderrs == UNION {[1..n -> Tokens] : n \in 0..MaxStderr}
EndsWithEq(t) == t \in {"FOD_PATH=", "="}

LineEnd(s, i) ==
  IF \E j \in (i + 1)..Len(s) : s[j] = "NL"
  THEN CHOOSE j \in (i + 1)..Len(s) :
         s[j] = "NL" /\ \A h \in (i + 1)..(j - 1) : s[h] # "NL"
  ELSE Len(s) + 1

\* a faulty pattern, FOD_PATH=(.*): any rest of the line
GroupEndsAny(s, i) == i..(LineEnd(s, i) - 1)

\* the ends of the groups the pattern can match after the marker at i
GroupEnds(s, i) == {j \in (i + 1)..(LineEnd(s, i) - 1) : EndsWithEq(s[j])}

MaxOf(S) == CHOOSE x \in S : \A y \in S : y <= x

\* re.search(r"FOD_PATH=(.*=)", stderr), line 358: the leftmost marker that
\* the pattern matches, its group the longest on the line (.* is greedy)
re_search(s) ==
  LET starts == {i \in 1..Len(s) : s[i] = "FOD_PATH=" /\ GroupEnds(s, i) # {}}
  IN IF starts = {} THEN [found |-> FALSE, group |-> <<>>]
     ELSE LET i == CHOOSE x \in starts : \A y \in starts : x <= y
          IN [found |-> TRUE, group |-> SubSeq(s, i + 1, MaxOf(GroupEnds(s, i)))]

\* ------------------------------------------------------------ the state
VARIABLES
  pc,                   \* where handle() is
  error,                \* the failure the run ended with, "none" otherwise
  force,                \* --force
  combined,             \* --combined
  output,               \* the output directory
  disk,                 \* disk[d]: the dream-lock.json of directory d
  args,                 \* --arg, as given
  specified_extra_args, \* the dict of line 56, as the code rewrites it
  translator_input,     \* the extra arguments passed to the translator
  translatorWrote,      \* whether this run's translator wrote its output
  lock,                 \* the lock in memory
  G,                    \* the live graph
  keyIdx,               \* the position of the loops of lines 309-310
  cycle,                \* the last cycle found
  cycle_count,
  removed_edges,
  proc                  \* the oracle's run of line 349

vars == <<pc, error, force, combined, output, disk, args, specified_extra_args,
          translator_input, translatorWrote, lock, G, keyIdx, cycle,
          cycle_count, removed_edges, proc>>

options == <<force, combined, output, args>>
graph == <<G, keyIdx, cycle, cycle_count, removed_edges>>

NoArgs == [k \in {} |-> ""]
NoProc == [ran |-> FALSE, stderr |-> <<>>]

Init ==
  /\ pc = "start"
  /\ error = "none"
  /\ force \in BOOLEAN
  /\ combined \in BOOLEAN
  /\ output \in Dirs
  /\ disk \in [Dirs -> {"none", "stale"}]
  /\ args \in ArgInputs
  /\ specified_extra_args = args
  /\ translator_input = NoArgs
  /\ translatorWrote = FALSE
  /\ lock = EmptyLock
  /\ G = EmptyGraph
  /\ keyIdx = 1
  /\ cycle = <<>>
  /\ cycle_count = 0
  /\ removed_edges = <<>>
  /\ proc = NoProc

\* the resolver's runs: the translator has just run and written its output,
\* in a run without --combined
InitResolver ==
  /\ pc = "translated"
  /\ error = "none"
  /\ force = FALSE
  /\ combined = FALSE
  /\ output = "cwd"
  /\ disk = [d \in Dirs |-> IF d = "cwd" THEN "raw" ELSE "none"]
  /\ args = NoArgs
  /\ specified_extra_args = WithDefaults(NoArgs)
  /\ translator_input = WithDefaults(NoArgs)
  /\ translatorWrote = TRUE
  /\ lock = EmptyLock
  /\ G = EmptyGraph
  /\ keyIdx = 1
  /\ cycle = <<>>
  /\ cycle_count = 0
  /\ removed_edges = <<>>
  /\ proc = NoProc

Exit(e) == pc' = "exit" /\ error' = e

\* lines 63-87: with --force the files to create are removed, by their bare
\* names (in the working directory); without it, an output directory that
\* holds one of them ends the run
EnsureOutput ==
  /\ pc = "start"
  /\ IF force
     THEN /\ disk' = [disk EXCEPT !["cwd"] = "none"]
          /\ pc' = "args"
          /\ error' = error
     ELSE IF disk[output] # "none"
          THEN Exit("OutputConflict") /\ disk' = disk
          ELSE pc' = "args" /\ error' = error /\ disk' = disk
  /\ UNCHANGED <<options, specified_extra_args, translator_input,
                 translatorWrote, lock, graph, proc>>

\* lines 166-212
CheckExtraArgs ==
  /\ pc = "args"
  /\ IF DOMAIN specified_extra_args \ DOMAIN ExtraArgs # {}
     THEN Exit("InvalidExtraArgument") /\ UNCHANGED specified_extra_args
     ELSE LET given == WithDefaults(TransformFlags(specified_extra_args))
          IN /\ specified_extra_args' = given
             /\ IF DOMAIN ExtraArgs \ DOMAIN given # {}
                THEN Exit("MissingRequiredArgument")
                ELSE pc' = "translate" /\ error' = error
  /\ UNCHANGED <<options, disk, translator_input, translatorWrote, lock,
                 graph, proc>>

\* lines 231-254: the translator is run; it writes outputFile or it does not
RunTranslator ==
  /\ pc = "translate"
  /\ translator_input' = specified_extra_args
  /\ \E wrote \in BOOLEAN :
       /\ translatorWrote' = wrote
       /\ disk' = IF wrote THEN [disk EXCEPT ![output] = "raw"] ELSE disk
  /\ pc' = "translated"
  /\ UNCHANGED <<error, options, specified_extra_args, lock, graph, proc>>

\* lines 256-289: the file at the output location is read, whoever wrote
\* it.  What it holds is a lock without dependencies, or one that declares at
\* most maxEdges edges and maxEmpty empty items, in one of the orders.
ReadLockFrom(maxEdges, maxEmpty, orders) ==
  /\ pc = "translated"
  /\ IF disk[output] = "none"
     THEN Exit("TranslatorExecutionFailed") /\ lock' = lock
     ELSE /\ \/ lock' = EmptyLock
             \/ \E E \in KSubsets(AllEdges, maxEdges) :
                  \E Z \in EmptyChoices(E, maxEmpty) :
                    \E rev \in orders : lock' = RawLock(E, Z, rev)
          /\ pc' = "clean"
          /\ error' = error
  /\ UNCHANGED <<options, disk, specified_extra_args, translator_input,
                 translatorWrote, graph, proc>>

\* the runs of the whole command
ReadLock == ReadLockFrom(MaxPipelineEdges, 0, {<<FALSE, FALSE>>})

\* the resolver's runs
ReadResolverLock == ReadLockFrom(MaxEdges, MaxEmpty, BOOLEAN \X BOOLEAN)

AfterGraph == IF combined THEN "strip" ELSE "write"

\* lines 291-308
CleanUpDependencyGraph ==
  /\ pc = "clean"
  /\ IF lock.generic_dependencies
     THEN LET cleaned == RemoveEmptyEntries(lock)
          IN /\ lock' = cleaned
             /\ G' = DiGraph(sorted(EdgeSet(cleaned)))
             /\ cycle_count' = 0
             /\ removed_edges' = <<>>
             /\ keyIdx' = 1
             /\ pc' = "resolve"
             /\ UNCHANGED cycle
     ELSE pc' = AfterGraph /\ UNCHANGED <<lock, graph>>
  /\ UNCHANGED <<error, options, disk, specified_extra_args, translator_input,
                 translatorWrote, proc>>

\* lines 312-319: a cycle is found from the current key, its last edge removed
RemoveCycleEdge ==
  /\ pc = "resolve"
  /\ keyIdx <= Len(Keys(lock))
  /\ LET found == find_cycle(G, Keys(lock)[keyIdx])
     IN /\ found # <<>>
        /\ cycle' = found
        /\ cycle_count' = cycle_count + 1
        /\ G' = remove_edge(G, EdgeToRemove(found))
        /\ removed_edges' = Append(removed_edges, EdgeToRemove(found))
  /\ UNCHANGED <<pc, error, options, disk, specified_extra_args,
                 translator_input, translatorWrote, lock, keyIdx, proc>>

\* lines 320-321: NetworkXNoCycle, on to the next key
NoCycle ==
  /\ pc = "resolve"
  /\ keyIdx <= Len(Keys(lock))
  /\ find_cycle(G, Keys(lock)[keyIdx]) = <<>>
  /\ keyIdx' = keyIdx + 1
  /\ UNCHANGED <<pc, error, options, disk, specified_extra_args,
                 translator_input, translatorWrote, lock, G, cycle, cycle_count,
                 removed_edges, proc>>

\* lines 322-335
RecordCyclicDependencies ==
  /\ pc = "resolve"
  /\ keyIdx > Len(Keys(lock))
  /\ lock' = [lock EXCEPT
                !.hasCyclic = TRUE,
                !.cyclicDependencies =
                   CyclicTable([k \in NodeKeys |-> <<>>], removed_edges)]
  /\ pc' = AfterGraph
  /\ UNCHANGED <<error, options, disk, specified_extra_args, translator_input,
                 translatorWrote, graph, proc>>

\* lines 338-346: the hashes stripped, the combined hash initialised, the
\* lock written to the output location
StripHashes ==
  /\ pc = "strip"
  /\ lock' = [strip_hashes_from_lock(lock) EXCEPT
                !.hasCombinedHash = TRUE, !.sourcesCombinedHash = <<>>]
  /\ disk' = [disk EXCEPT ![output] = "stripped"]
  /\ pc' = "oracle"
  /\ UNCHANGED <<error, options, specified_extra_args, translator_input,
                 translatorWrote, graph, proc>>

\* lines 349-355: nix build, its stderr captured
RunOracle ==
  /\ pc = "oracle"
  /\ \E err \in Stderrs : proc' = [ran |-> TRUE, stderr |-> err]
  /\ pc' = "match"
  /\ UNCHANGED <<error, options, disk, specified_extra_args, translator_input,
                 translatorWrote, lock, graph>>

\* lines 358-367
ReadFodHash ==
  /\ pc = "match"
  /\ LET match == re_search(proc.stderr)
     IN IF ~match.found
        THEN Exit("CombinedHashOracleFailed") /\ lock' = lock
        ELSE /\ lock' = [lock EXCEPT !.sourcesCombinedHash = match.group]
             /\ pc' = "write"
             /\ error' = error
  /\ UNCHANGED <<options, disk, specified_extra_args, translator_input,
                 translatorWrote, graph, proc>>

\* line 370: checkLockJSON(lock) raises
SchemaValidationFailed ==
  /\ pc = "write"
  /\ Exit("SchemaValidationFailed")
  /\ UNCHANGED <<options, disk, specified_extra_args, translator_input,
                 translatorWrote, lock, graph, proc>>

\* lines 370-377: checkLockJSON(lock) passes, the lock is written
WriteLock ==
  /\ pc = "write"
  /\ disk' = [disk EXCEPT ![output] = "final"]
  /\ pc' = "done"
  /\ UNCHANGED <<error, options, specified_extra_args, translator_input,
                 translatorWrote, lock, graph, proc>>

Next ==
  \/ EnsureOutput
  \/ CheckExtraArgs
  \/ RunTranslator
  \/ ReadLock
  \/ CleanUpDependencyGraph
  \/ RemoveCycleEdge
  \/ NoCycle
  \/ RecordCyclicDependencies
  \/ StripHashes
  \/ RunOracle
  \/ ReadFodHash
  \/ SchemaValidationFailed
  \/ WriteLock

Spec == Init /\ [][Next]_vars

NextResolver ==
  \/ ReadResolverLock
  \/ CleanUpDependencyGraph
  \/ RemoveCycleEdge
  \/ NoCycle
  \/ RecordCyclicDependencies
  \/ SchemaValidationFailed
  \/ WriteLock

SpecResolver == InitResolver /\ [][NextResolver]_vars

\* --------------------------------------- the loops of lines 309-321, whole
RECURSIVE ResolveKey(_, _, _)
\* the while loop of lines 313-319 for one key
ResolveKey(g, removed, k) ==
  LET found == find_cycle(g, k)
  IN IF found = <<>> THEN [G |-> g, removed |-> removed]
     ELSE ResolveKey(remove_edge(g, EdgeToRemove(found)),
                     Append(removed, EdgeToRemove(found)), k)

RECURSIVE ResolveAll(_, _, _)
\* the loops of lines 309-321 over the keys in the order given
ResolveAll(g, removed, keys) ==
  IF keys = <<>> THEN [G |-> g, removed |-> removed]
  ELSE LET r == ResolveKey(g, removed, keys[1])
       IN ResolveAll(r.G, r.removed, Tail(keys))

\* ------------------------------------------------- notions the claims use
RECURSIVE Closure(_, _)
\* the pairs <<a, b>> with a path of one or more edges of E from a to b
Closure(R, E) ==
  LET R2 == R \cup {<<p[1][1], p[2][2]>> : p \in {q \in R \X E : q[1][2] = q[2][1]}}
  IN IF R2 = R THEN R ELSE Closure(R2, E)

Acyclic(E) == \A k \in NodeKeys : <<k, k>> \notin Closure(E, E)

\* the edges of the lock's dependencies
LockEdges == EdgeSet(lock)

\* the edges of the lock's cyclicDependencies
CyclicEdges ==
  {e \in AllEdges : e[2] \in Range(lock.cyclicDependencies[e[1]])}

\* the same lock with its entries listed in ascending order
Reordered(l) ==
  [l EXCEPT !.names = SortedInts(Range(@)),
            !.versions = [n \in Names |-> SortedInts(Range(@[n]))]]

Reconciling == pc \in {"clean", "resolve", "strip", "oracle", "match", "write", "done"}

Recognised == {"yes", "y", "true", "no", "n", "false"}

InvalidFlagGiven ==
  \E k \in DOMAIN args \cap DOMAIN ExtraArgs :
    ExtraArgs[k].type = "flag" /\ lower(args[k]) \notin Recognised

\* the pattern's marker: FOD_PATH=, then an = later on the same line
MarkerAt(s, i, j) ==
  /\ i < j
  /\ s[i] = "FOD_PATH="
  /\ EndsWithEq(s[j])
  /\ \A h \in (i + 1)..j : s[h] # "NL"

HasMarker(s) == \E i, j \in 1..Len(s) : MarkerAt(s, i, j)

\* h is what follows the first marker of s, up to the last = of its line
RecoveredFrom(s, h) ==
  \E i, j \in 1..Len(s) :
    /\ MarkerAt(s, i, j)
    /\ h = SubSeq(s, i + 1, j)
    /\ \A i2, j2 \in 1..Len(s) : MarkerAt(s, i2, j2) => i <= i2
    /\ \A j2 \in 1..Len(s) : MarkerAt(s, i, j2) => j2 <= j

\* ---------------------------------------------------------------- claims

\* C1: after cycle resolution, the `dependencies` map of the lock that is
\* written is acyclic: no NodeKey reaches itself through its edges.
C1_WrittenDependenciesAcyclic == pc = "done" => Acyclic(LockEdges)

\* C2: cyclicDependencies is the exact complement of the live dependencies:
\* it records exactly the edges removed from the live graph, each once under
\* its origin, and no recorded edge is still in the final lock's dependencies.
C2_CyclicIsExactComplement ==
  (pc = "done" /\ lock.hasCyclic) =>
    /\ CyclicEdges = Range(removed_edges)
    /\ CyclicEdges = LockEdges \ GraphEdges(G)
    /\ \A k \in NodeKeys :
         Len(lock.cyclicDependencies[k]) =
           Cardinality(Range(lock.cyclicDependencies[k]))
    /\ CyclicEdges \cap LockEdges = {}

\* C3: on a dependency map with no cycle the resolver is a no-op: no edge is
\* removed, the live graph keeps exactly the declared edges (which the lock
\* keeps too), and cyclicDependencies is the empty map.
C3_AcyclicIsNoOp ==
  (/\ pc = "resolve" \/ lock.hasCyclic
   /\ Acyclic(LockEdges)) =>
     /\ removed_edges = <<>>
     /\ cycle_count = 0
     /\ GraphEdges(G) = LockEdges
     /\ \A k \in NodeKeys : lock.cyclicDependencies[k] = <<>>

C3_Witness ==
  /\ pc = "done"
  /\ lock.hasCyclic
  /\ Cardinality(LockEdges) >= 2
  /\ Acyclic(LockEdges)
  /\ GraphEdges(G) = LockEdges

\* C4: after the graph builder stage no (name, version) entry of the
\* dependencies map has an empty list.
C4_NoEmptyListLeft ==
  (Reconciling /\ pc # "clean") =>
    \A k \in Range(Keys(lock)) : lock.deps[k] # {}

\* C5: in combined-hash mode sourcesCombinedHash is "" and the stripped lock
\* is on disk before the oracle is invoked; once the hash is read it is the
\* value recovered from the marker and is not empty, and a run whose
\* diagnostics hold the marker does not fail for want of it; without
\* --combined the oracle is never invoked and the hash never set.
C5_CombinedHashProtocol ==
  /\ pc = "oracle" =>
       /\ ~proc.ran
       /\ combined
       /\ disk[output] = "stripped"
       /\ lock.hasCombinedHash
       /\ lock.sourcesCombinedHash = <<>>
  /\ proc.ran => combined /\ disk[output] \in {"stripped", "final"}
  /\ (combined /\ pc \in {"write", "done"}) =>
       /\ proc.ran
       /\ lock.hasCombinedHash
       /\ lock.sourcesCombinedHash # <<>>
       /\ RecoveredFrom(proc.stderr, lock.sourcesCombinedHash)
  /\ (proc.ran /\ HasMarker(proc.stderr)) => error # "CombinedHashOracleFailed"
  /\ error = "CombinedHashOracleFailed" => proc.ran /\ ~HasMarker(proc.stderr)
  /\ ~combined => ~proc.ran /\ ~lock.hasCombinedHash

C5_Witness ==
  /\ pc = "done"
  /\ combined
  /\ proc.ran
  /\ HasMarker(proc.stderr)
  /\ lock.sourcesCombinedHash # <<>>
  /\ disk[output] = "final"

\* C6: when the run fails after the translator has run (the marker is absent,
\* or the schema check fails) no lock file is left at the output location.
C6_NoLockLeftOnFailure ==
  (pc = "exit" /\ error \in {"CombinedHashOracleFailed", "SchemaValidationFailed"})
    => disk[output] = "none"

\* C7: when the translator produces no output the run aborts and reconciles
\* nothing, whatever the force flag, the output directory and the files there.
C7_NoOutputNoReconciliation == Reconciling => translatorWrote

\* C8: a flag argument whose value is no recognised yes/no spelling is fatal:
\* the run ends before the translator is invoked and nothing is passed on.
C8_InvalidFlagIsFatal ==
  InvalidFlagGiven =>
    /\ pc \in {"start", "args", "exit"}
    /\ pc = "exit" => error \in {"OutputConflict", "InvalidExtraArgument"}
    /\ translator_input = NoArgs

\* C9 as stated: every edge removed while key k is processed has k as target.
C9_RemovedEdgeTargetsKey ==
  [][(pc = "resolve" /\ removed_edges' # removed_edges) =>
       Last(removed_edges')[2] = Keys(lock)[keyIdx]]_vars

\* C9 as amended: every edge removed while key k is processed is the last
\* edge of the cycle the search from k found: that cycle is a closed walk of
\* live edges reachable from k, the removed edge's target is the node the
\* cycle starts at, and that node is k whenever the cycle passes through k.
C9_RemovedEdgeClosesFoundCycle ==
  [][(pc = "resolve" /\ removed_edges' # removed_edges) =>
       LET k == Keys(lock)[keyIdx]
           c == cycle'
           e == Last(removed_edges')
           start == c[1][1]
       IN /\ c # <<>>
          /\ removed_edges' = Append(removed_edges, e)
          /\ e = Last(c)
          /\ \A i \in 1..Len(c) : c[i] \in GraphEdges(G)
          /\ \A i \in 1..(Len(c) - 1) : c[i][2] = c[i + 1][1]
          /\ e[2] = start
          /\ start = k \/ <<k, start>> \in Closure(GraphEdges(G), GraphEdges(G))
          /\ (\E i \in 1..Len(c) : c[i][1] = k) => e[2] = k
          /\ GraphEdges(G') = GraphEdges(G) \ {e}]_vars

C9_Witness ==
  /\ pc = "resolve"
  /\ removed_edges # <<>>
  /\ Len(cycle) >= 2
  /\ Last(removed_edges) = Last(cycle)
  /\ Last(removed_edges)[2] # Keys(lock)[keyIdx]

\* C10: the removed edges and the remaining graph do not depend on the order
\* in which the raw map lists its entries: they are those of the same map
\* with its entries listed in ascending order.
C10_OrderIndependent ==
  lock.hasCyclic =>
    LET ref == ResolveAll(DiGraph(sorted(LockEdges)), <<>>, Keys(Reordered(lock)))
    IN /\ Range(removed_edges) = Range(ref.removed)
       /\ GraphEdges(G) = GraphEdges(ref.G)

====
